---- MODULE Spec2Model ----
(***************************************************************************)
(* Level-advancement state machine of the language-learning backend        *)
(* (backend/app/services/progress_service.py) together with the handlers   *)
(* that write the records it reads: answer submissions, conversation       *)
(* messages, the demo cheat code, manual level updates and the placement   *)
(* test.  The database is one record `db` of tables; a handler is one      *)
(* action that ends with the handler's commit.                             *)
(***************************************************************************)
EXTENDS Integers, Sequences, FiniteSets, TLC

VARIABLES db, now, last, tx, steps, shown, reqs

vars == <<db, now, last, tx, steps, shown, reqs>>

(***************************************************************************)
(* Bounds of the model                                                     *)
(***************************************************************************)
\* requests that move a counter (an activity submission, a successful
\* advancement, a day passing) in one behaviour
MaxSteps == 2

(***************************************************************************)
(* Program constants                                                       *)
(***************************************************************************)
LEVEL_ORDER == <<"A1", "A2", "B1", "B2", "C1", "C2">>

SCORE_THRESHOLD == 85
MINIMUM_ATTEMPTS == 10
CONVERSATION_MINIMUM == 20

XP_REWARDS ==
    [l \in {"A1", "A2", "B1", "B2", "C1", "C2"} |->
        CASE l = "A1" -> 100
          [] l = "A2" -> 200
          [] l = "B1" -> 300
          [] l = "B2" -> 400
          [] l = "C1" -> 500
          [] l = "C2" -> 1000]

SCORED_MODULES == <<"vocabulary", "grammar", "writing", "phonetics">>

\* the module names a user_progress row can carry
Modules == {"vocabulary", "grammar", "writing", "phonetics", "conversation"}

Levels == {LEVEL_ORDER[i] : i \in 1..Len(LEVEL_ORDER)}

\* Python's None for a string column, a timestamp column, a Float column
NoLevel == "None"
NoLanguage == "None"
NoTime == -1
None == <<>>

\* u1 sends the requests; u2 is another learner whose records sit in the same
\* tables; u3 is an id no user row carries
UserIds == {"u1", "u2", "u3"}

Callers == {"u1"}

ServiceArgs == {"u1"}

(***************************************************************************)
(* Float columns hold exact rationals <<n, d>>, d > 0, in lowest terms.    *)
(***************************************************************************)
RECURSIVE GCD(_, _)
GCD(a, b) == IF b = 0 THEN a ELSE GCD(b, a % b)

Rat(n, d) == LET g == GCD(n, d) IN <<n \div g, d \div g>>

Num(k) == <<k, 1>>

\* Python `x or 0.0`
OrZero(s) == IF s = None \/ s[1] = 0 THEN Num(0) ELSE s

RAdd(a, b) == Rat(a[1] * b[2] + b[1] * a[2], a[2] * b[2])

RMul(a, b) == Rat(a[1] * b[1], a[2] * b[2])

RDiv(a, k) == Rat(a[1], a[2] * k)

RGe(a, b) == a[1] * b[2] >= b[1] * a[2]

(***************************************************************************)
(* Table access                                                            *)
(***************************************************************************)
\* db.query(User).filter(User.id == user_id).first() is not None
UserExists(d, u) == u \in DOMAIN d.users

HasRow(d, u, m) == <<u, m>> \in DOMAIN d.user_progress

_get_module_progress(d, u, m) == d.user_progress[<<u, m>>]

\* the user's rows of conversation_sessions, in table order
UserSessions(d, u) == SelectSeq(d.conversation_sessions, LAMBDA s : s.user_id = u)

UserHistory(d, u) == SelectSeq(d.level_history, LAMBDA h : h.user_id = u)

\* a transcript (context_json["messages"]) is kept as the number of messages
\* of each role; CountRole is sum(1 for msg in messages if role == r)
CountRole(messages, r) == messages[r]

RECURSIVE SumUserMessages(_)
SumUserMessages(ss) ==
    IF ss = <<>> THEN 0
    ELSE CountRole(Head(ss).messages, "user") + SumUserMessages(Tail(ss))

_get_conversation_message_count(d, u) == SumUserMessages(UserSessions(d, u))

\* the successor gone wrong: the last stage wraps around to the first
get_next_level_wrapping(current_level) ==
    IF current_level = NoLevel \/ current_level \notin Levels THEN "A1"
    ELSE LET current_index == CHOOSE i \in 1..Len(LEVEL_ORDER) : LEVEL_ORDER[i] = current_level
         IN LEVEL_ORDER[(current_index % Len(LEVEL_ORDER)) + 1]

\* the successor gone wrong: a stage is skipped
get_next_level_skipping(current_level) ==
    IF current_level = NoLevel \/ current_level \notin Levels THEN "A1"
    ELSE LET current_index == CHOOSE i \in 1..Len(LEVEL_ORDER) : LEVEL_ORDER[i] = current_level
         IN IF current_index + 1 < Len(LEVEL_ORDER) THEN LEVEL_ORDER[current_index + 2]
            ELSE NoLevel

get_next_level(current_level) ==
    IF current_level = NoLevel \/ current_level \notin Levels THEN "A1"
    ELSE LET current_index == CHOOSE i \in 1..Len(LEVEL_ORDER) : LEVEL_ORDER[i] = current_level
         IN IF current_index < Len(LEVEL_ORDER) THEN LEVEL_ORDER[current_index + 1]
            ELSE NoLevel

(***************************************************************************)
(* calculate_advancement_eligibility: a read of the committed tables       *)
(***************************************************************************)
\* the gates gone wrong: strict comparisons
ModuleStatusStrict(d, u, m) ==
    IF ~HasRow(d, u, m)
    THEN [ready |-> FALSE, score |-> None, attempts |-> 0,
          reason |-> <<"No activity yet">>]
    ELSE LET progress == _get_module_progress(d, u, m)
             score == OrZero(progress.score)
             attempts == progress.total_attempts
             ready == ~RGe(Num(SCORE_THRESHOLD), score) /\ attempts > MINIMUM_ATTEMPTS
         IN [ready |-> ready, score |-> score, attempts |-> attempts,
             reason |-> IF ready THEN None ELSE <<"Score too low", score>>]

\* the gates gone wrong: the attempts are not looked at
ModuleStatusLenient(d, u, m) ==
    IF ~HasRow(d, u, m)
    THEN [ready |-> FALSE, score |-> None, attempts |-> 0,
          reason |-> <<"No activity yet">>]
    ELSE LET progress == _get_module_progress(d, u, m)
             score == OrZero(progress.score)
             attempts == progress.total_attempts
             ready == RGe(score, Num(SCORE_THRESHOLD))
         IN [ready |-> ready, score |-> score, attempts |-> attempts,
             reason |-> IF ready THEN None ELSE <<"Score too low", score>>]

ModuleStatus(d, u, m) ==
    IF ~HasRow(d, u, m)
    THEN [ready |-> FALSE, score |-> None, attempts |-> 0,
          reason |-> <<"No activity yet">>]
    ELSE LET progress == _get_module_progress(d, u, m)
             score == OrZero(progress.score)
             attempts == progress.total_attempts
             meets_score == RGe(score, Num(SCORE_THRESHOLD))
             meets_attempts == attempts >= MINIMUM_ATTEMPTS
             ready == meets_score /\ meets_attempts
         IN [ready |-> ready, score |-> score, attempts |-> attempts,
             reason |-> IF ready THEN None
                        ELSE IF ~meets_score THEN <<"Score too low", score>>
                        ELSE <<"Not enough attempts", attempts>>]

RECURSIVE BlockingReasons(_, _)
BlockingReasons(status, ms) ==
    IF ms = <<>> THEN <<>>
    ELSE (IF status[Head(ms)].ready THEN <<>>
          ELSE << <<Head(ms), status[Head(ms)].reason>> >>)
         \o BlockingReasons(status, Tail(ms))

calculate_advancement_eligibility(d, u) ==
    IF ~UserExists(d, u) THEN [eligible |-> FALSE, reason |-> <<"User not found">>]
    ELSE IF d.users[u].level = NoLevel
    THEN [eligible |-> FALSE, reason |-> <<"User level not set">>]
    ELSE IF get_next_level(d.users[u].level) = NoLevel
    THEN [eligible |-> FALSE, reason |-> <<"Already at maximum level (C2)">>]
    ELSE LET module_status ==
                 [m \in {SCORED_MODULES[i] : i \in 1..Len(SCORED_MODULES)} |->
                     ModuleStatus(d, u, m)]
             all_modules_ready ==
                 \A i \in 1..Len(SCORED_MODULES) : module_status[SCORED_MODULES[i]].ready
             conversation_messages == _get_conversation_message_count(d, u)
             conversation_ready == conversation_messages >= CONVERSATION_MINIMUM
             blocking_reasons ==
                 BlockingReasons(module_status, SCORED_MODULES)
                 \o (IF conversation_ready THEN <<>>
                     ELSE << <<"conversation",
                               <<"Need more messages",
                                 CONVERSATION_MINIMUM - conversation_messages>> >> >>)
             eligible == all_modules_ready /\ conversation_ready
         IN [eligible |-> eligible,
             reason |-> IF eligible THEN None ELSE blocking_reasons,
             modules |-> module_status,
             conversation_messages |-> conversation_messages,
             conversation_ready |-> conversation_ready]

(***************************************************************************)
(* advance_user_level, statement by statement.  Each operator maps the     *)
(* session's view of the tables to the view after the statement; nothing   *)
(* reaches the committed tables before db.commit().                        *)
(***************************************************************************)
ModuleScore(d, u, m) ==
    IF HasRow(d, u, m) THEN _get_module_progress(d, u, m).score ELSE None

ModuleAttempts(d, u, m) ==
    IF HasRow(d, u, m) THEN _get_module_progress(d, u, m).total_attempts ELSE 0

\* lines 302-309: module_scores, as returned in AdvancementResponse
CollectScores(d, u) ==
    [m \in {SCORED_MODULES[i] : i \in 1..Len(SCORED_MODULES)} |-> ModuleScore(d, u, m)]

\* the weights gone wrong: a quarter each
WeightedScoreEvenly(scores) ==
    RAdd(RAdd(RMul(OrZero(scores["vocabulary"]), Rat(25, 100)),
              RMul(OrZero(scores["grammar"]), Rat(25, 100))),
         RAdd(RMul(OrZero(scores["writing"]), Rat(25, 100)),
              RMul(OrZero(scores["phonetics"]), Rat(25, 100))))

\* vocabulary 30%, grammar 30%, writing 20%, phonetics 20%
WeightedScore(scores) ==
    RAdd(RAdd(RMul(OrZero(scores["vocabulary"]), Rat(30, 100)),
              RMul(OrZero(scores["grammar"]), Rat(30, 100))),
         RAdd(RMul(OrZero(scores["writing"]), Rat(20, 100)),
              RMul(OrZero(scores["phonetics"]), Rat(20, 100))))

DaysAtLevel(user, t) ==
    IF user.level_started_at # NoTime THEN t - user.level_started_at ELSE 0

HistoryEntry(d, u, t) ==
    LET user == d.users[u]
        module_scores == CollectScores(d, u)
    IN [user_id |-> u,
        level |-> user.level,
        vocabulary_score |-> module_scores["vocabulary"],
        grammar_score |-> module_scores["grammar"],
        writing_score |-> module_scores["writing"],
        phonetics_score |-> module_scores["phonetics"],
        conversation_messages |-> _get_conversation_message_count(d, u),
        vocabulary_attempts |-> ModuleAttempts(d, u, "vocabulary"),
        grammar_attempts |-> ModuleAttempts(d, u, "grammar"),
        writing_attempts |-> ModuleAttempts(d, u, "writing"),
        phonetics_attempts |-> ModuleAttempts(d, u, "phonetics"),
        started_at |-> IF user.level_started_at # NoTime THEN user.level_started_at
                       ELSE user.created_at,
        completed_at |-> t,
        days_at_level |-> DaysAtLevel(user, t),
        weighted_score |-> WeightedScore(module_scores)]

\* lines 327-346: db.add(history_entry)
ArchiveHistory(d, u, t) ==
    [d EXCEPT !.level_history = Append(@, HistoryEntry(d, u, t))]

\* the reset gone wrong: the row is left as it is
ZeroRowKeeping(row) == row

ZeroRow(row) ==
    [row EXCEPT !.score = Num(0), !.total_attempts = 0, !.correct_attempts = 0]

\* the reset gone wrong: the conversation sessions stay
reset_progress_keep_sessions(d, u) ==
    [d EXCEPT !.user_progress =
        [k \in DOMAIN @ |-> IF k[1] = u THEN ZeroRow(@[k]) ELSE @[k]]]

reset_progress_for_new_level(d, u) ==
    [d EXCEPT
        !.user_progress =
            [k \in DOMAIN @ |-> IF k[1] = u THEN ZeroRow(@[k]) ELSE @[k]],
        !.conversation_sessions = SelectSeq(@, LAMBDA s : s.user_id # u)]

\* lines 351-355
UpdateUserLevel(d, u, new_level, t) ==
    [d EXCEPT !.users[u].level = new_level,
              !.users[u].level_started_at = t,
              !.users[u].can_advance = FALSE,
              !.users[u].advancement_notified_at = NoTime]

\* the award gone wrong: the total is overwritten
AwardXpOverwriting(d, u, xp_earned) ==
    [d EXCEPT !.users[u].total_xp = xp_earned]

\* lines 357-359
AwardXp(d, u, xp_earned) ==
    [d EXCEPT !.users[u].total_xp = @ + xp_earned]

XpEarned(old_level) ==
    IF old_level \in DOMAIN XP_REWARDS THEN XP_REWARDS[old_level] ELSE 100

\* advance_user_level gone wrong: the cached flag is trusted
advance_user_level_trusting_flag(d, u, t) ==
    LET old_level == d.users[u].level
        new_level == get_next_level(old_level)
        xp_earned == XpEarned(old_level)
    IN IF ~d.users[u].can_advance
       THEN [db |-> d,
             ret |-> [ok |-> FALSE,
                      error |-> <<"Not eligible to advance", <<"flag not set">> >>]]
       ELSE IF new_level = NoLevel
       THEN [db |-> d, ret |-> [ok |-> FALSE, error |-> <<"Already at maximum level">>]]
       ELSE [db |-> AwardXp(
                       UpdateUserLevel(
                           reset_progress_for_new_level(ArchiveHistory(d, u, t), u),
                           u, new_level, t),
                       u, xp_earned),
             ret |-> [ok |-> TRUE,
                      new_level |-> new_level,
                      old_level |-> old_level,
                      xp_earned |-> xp_earned,
                      module_scores |-> CollectScores(d, u)]]

\* advance_user_level gone wrong: the history entry is written after the reset
advance_user_level_archive_last(d, u, t) ==
    LET eligibility == calculate_advancement_eligibility(d, u)
        old_level == d.users[u].level
        new_level == get_next_level(old_level)
        xp_earned == XpEarned(old_level)
    IN IF ~eligibility.eligible
       THEN [db |-> d,
             ret |-> [ok |-> FALSE,
                      error |-> <<"Not eligible to advance", eligibility.reason>>]]
       ELSE [db |-> AwardXp(
                       UpdateUserLevel(
                           ArchiveHistory(reset_progress_for_new_level(d, u), u, t),
                           u, new_level, t),
                       u, xp_earned),
             ret |-> [ok |-> TRUE,
                      new_level |-> new_level,
                      old_level |-> old_level,
                      xp_earned |-> xp_earned,
                      module_scores |-> CollectScores(d, u)]]

\* the whole of advance_user_level on tables d at time t: the tables it
\* commits (d itself when it raises) and what it returns or raises
advance_user_level(d, u, t) ==
    IF ~UserExists(d, u)
    THEN [db |-> d, ret |-> [ok |-> FALSE, error |-> <<"User not found">>]]
    ELSE LET eligibility == calculate_advancement_eligibility(d, u)
             old_level == d.users[u].level
             new_level == get_next_level(old_level)
             xp_earned == XpEarned(old_level)
         IN IF ~eligibility.eligible
            THEN [db |-> d,
                  ret |-> [ok |-> FALSE,
                           error |-> <<"Not eligible to advance", eligibility.reason>>]]
            ELSE IF new_level = NoLevel
            THEN [db |-> d,
                  ret |-> [ok |-> FALSE, error |-> <<"Already at maximum level">>]]
            ELSE [db |-> AwardXp(
                            UpdateUserLevel(
                                reset_progress_for_new_level(ArchiveHistory(d, u, t), u),
                                u, new_level, t),
                            u, xp_earned),
                  ret |-> [ok |-> TRUE,
                           new_level |-> new_level,
                           old_level |-> old_level,
                           xp_earned |-> xp_earned,
                           module_scores |-> CollectScores(d, u)]]

(***************************************************************************)
(* Initial states.  u2 has used the cheat code at level B1.  u1 is either  *)
(* newly registered or close to every gate at level A1.                    *)
(***************************************************************************)
NewUser(t) ==
    [level |-> NoLevel,
     level_started_at |-> NoTime,
     can_advance |-> FALSE,
     advancement_notified_at |-> NoTime,
     total_xp |-> 0,
     placement_test_completed |-> FALSE,
     target_language |-> NoLanguage,
     created_at |-> t]

\* the opening assistant message, then n exchanges
Transcript(n) == [user |-> n, assistant |-> n + 1]

CheatAttempts == 15
CheatScore == 95
CheatMessages == 25

DummyMessages == [user |-> CheatMessages, assistant |-> CheatMessages]

BystanderUser ==
    [NewUser(0) EXCEPT !.level = "B1", !.placement_test_completed = TRUE,
                       !.target_language = "es",
                       !.can_advance = TRUE, !.advancement_notified_at = 0]

BystanderRows ==
    [k \in {"u2"} \X {"vocabulary", "grammar", "writing", "phonetics"} |->
        [score |-> Num(CheatScore), total_attempts |-> CheatAttempts,
         correct_attempts |-> CheatAttempts]]

BystanderSession == [user_id |-> "u2", messages |-> DummyMessages]

FreshDb ==
    [users |-> ("u1" :> NewUser(0)) @@ ("u2" :> BystanderUser),
     user_progress |-> BystanderRows,
     conversation_sessions |-> << BystanderSession >>,
     level_history |-> <<>>,
     vocabulary_reviews |-> <<>>]

ProgressRow(score, total_attempts, correct_attempts) ==
    [score |-> score, total_attempts |-> total_attempts,
     correct_attempts |-> correct_attempts]

\* u1 at A1 after 20 vocabulary answers (17 right), 9 grammar answers (all
\* right), 10 writing submissions scored 85, 12 recordings scored 90 and 20
\* messages: one grammar answer short of eligibility
NearReadyRows ==
    [k \in {"u1"} \X Modules |->
        CASE k[2] = "vocabulary" -> ProgressRow(Num(85), 20, 17)
          [] k[2] = "grammar" -> ProgressRow(Num(100), 9, 9)
          [] k[2] = "writing" -> ProgressRow(Num(85), 10, 0)
          [] k[2] = "phonetics" -> ProgressRow(Num(90), 12, 0)
          [] k[2] = "conversation" -> ProgressRow(None, 20, 0)]

NearReadyDb ==
    [users |-> ("u1" :> [NewUser(0) EXCEPT !.level = "A1",
                                           !.target_language = "es",
                                           !.placement_test_completed = TRUE])
               @@ ("u2" :> BystanderUser),
     user_progress |-> NearReadyRows @@ BystanderRows,
     conversation_sessions |->
        << BystanderSession, [user_id |-> "u1", messages |-> Transcript(20)] >>,
     level_history |-> <<>>,
     vocabulary_reviews |-> <<>>]

\* u1 at A2 a day after advancing from A1 with the cheat code's records, now
\* one message short of eligibility
SecondLevelRows ==
    [k \in {"u1"} \X Modules |->
        CASE k[2] = "vocabulary" -> ProgressRow(Num(90), 20, 18)
          [] k[2] = "grammar" -> ProgressRow(Num(100), 10, 10)
          [] k[2] = "writing" -> ProgressRow(Num(90), 10, 0)
          [] k[2] = "phonetics" -> ProgressRow(Num(85), 10, 0)
          [] k[2] = "conversation" -> ProgressRow(Num(0), 19, 0)]

FirstHistoryEntry ==
    [user_id |-> "u1",
     level |-> "A1",
     vocabulary_score |-> Num(CheatScore),
     grammar_score |-> Num(CheatScore),
     writing_score |-> Num(CheatScore),
     phonetics_score |-> Num(CheatScore),
     conversation_messages |-> CheatMessages,
     vocabulary_attempts |-> CheatAttempts,
     grammar_attempts |-> CheatAttempts,
     writing_attempts |-> CheatAttempts,
     phonetics_attempts |-> CheatAttempts,
     started_at |-> 0,
     completed_at |-> 0,
     days_at_level |-> 0,
     weighted_score |-> Num(CheatScore)]

SecondLevelDb ==
    [users |-> ("u1" :> [NewUser(0) EXCEPT !.level = "A2",
                                           !.target_language = "es",
                                           !.level_started_at = 0,
                                           !.total_xp = 100,
                                           !.placement_test_completed = TRUE])
               @@ ("u2" :> BystanderUser),
     user_progress |-> SecondLevelRows @@ BystanderRows,
     conversation_sessions |->
        << BystanderSession, [user_id |-> "u1", messages |-> Transcript(19)] >>,
     level_history |-> << FirstHistoryEntry >>,
     vocabulary_reviews |-> <<>>]

Idle == [pc |-> "idle"]

Init ==
    /\ \E p \in {<<FreshDb, 0>>, <<NearReadyDb, 0>>, <<SecondLevelDb, 1>>} :
          /\ db = p[1]
          /\ now = p[2]
    /\ last = [op |-> "none"]
    /\ tx = Idle
    /\ steps = 0
    /\ shown = <<>>
    /\ reqs = <<>>

(***************************************************************************)
(* The handlers that write the progress records                            *)
(***************************************************************************)
PutRow(d, u, m, row) ==
    [d EXCEPT !.user_progress = (<<u, m>> :> row) @@ @]

\* no achievement is seeded in the achievements table (seed_achievements.py is
\* a separate script), so nothing is unlocked and no XP is awarded
check_and_unlock_achievements(d, u) == d

\* the notification gone wrong: the eligible user is promoted on the spot
NotifyAdvancementPromoting(d, u, t) ==
    IF calculate_advancement_eligibility(d, u).eligible
    THEN [d EXCEPT !.users[u].can_advance = TRUE,
                   !.users[u].advancement_notified_at = t,
                   !.users[u].level = get_next_level(d.users[u].level)]
    ELSE d

\* "Check if user now meets advancement criteria": the cached flag is only
\* ever raised here
NotifyAdvancement(d, u, t) ==
    IF calculate_advancement_eligibility(d, u).eligible /\ ~d.users[u].can_advance
    THEN [d EXCEPT !.users[u].can_advance = TRUE,
                   !.users[u].advancement_notified_at = t]
    ELSE d

\* vocabulary.py 334-355, grammar.py 186-208: the answer-based score
AnswerProgress(d, u, m, is_correct) ==
    LET old == IF HasRow(d, u, m) THEN _get_module_progress(d, u, m)
               ELSE [score |-> None, total_attempts |-> 0, correct_attempts |-> 0]
        total == old.total_attempts + 1
        correct == old.correct_attempts + (IF is_correct THEN 1 ELSE 0)
    IN PutRow(d, u, m,
              [score |-> IF total > 0 THEN Rat(correct * 100, total) ELSE old.score,
               total_attempts |-> total,
               correct_attempts |-> correct])

\* writing.py 98-119, phonetics.py 126-144: the averaged score
AveragedProgress(d, u, m, score) ==
    IF ~HasRow(d, u, m)
    THEN PutRow(d, u, m,
                [score |-> Num(score), total_attempts |-> 1, correct_attempts |-> 0])
    ELSE LET old == _get_module_progress(d, u, m)
         IN PutRow(d, u, m,
                   [old EXCEPT !.total_attempts = @ + 1,
                               !.score = IF old.score # None
                                         THEN RDiv(RAdd(old.score, Num(score)), 2)
                                         ELSE Num(score)])

submit_vocabulary_answer(d, u, is_correct, t) ==
    NotifyAdvancement(
        check_and_unlock_achievements(AnswerProgress(d, u, "vocabulary", is_correct), u),
        u, t)

submit_grammar_answer(d, u, is_correct, t) ==
    NotifyAdvancement(
        check_and_unlock_achievements(AnswerProgress(d, u, "grammar", is_correct), u),
        u, t)

get_writing_feedback(d, u, score, t) ==
    NotifyAdvancement(
        check_and_unlock_achievements(AveragedProgress(d, u, "writing", score), u),
        u, t)

\* phonetics.py 121-124: a recording heard with low confidence scores at least 10
PronunciationScore(score, low_confidence) ==
    IF low_confidence /\ score < 10 THEN 10 ELSE score

evaluate_pronunciation(d, u, score, low_confidence, t) ==
    NotifyAdvancement(
        check_and_unlock_achievements(
            AveragedProgress(d, u, "phonetics", PronunciationScore(score, low_confidence)),
            u),
        u, t)

\* conversation.py 64-79
start_conversation(d, u) ==
    [d EXCEPT !.conversation_sessions =
        Append(@, [user_id |-> u, messages |-> Transcript(0)])]

\* conversation.py 239-258: the conversation row counts messages, it has no score
ConversationProgress(d, u) ==
    IF ~HasRow(d, u, "conversation")
    THEN PutRow(d, u, "conversation",
                [score |-> None, total_attempts |-> 1, correct_attempts |-> 0])
    ELSE PutRow(d, u, "conversation",
                [_get_module_progress(d, u, "conversation") EXCEPT !.total_attempts = @ + 1])

\* conversation.py 121-258 for a session that exists and belongs to the user
send_message(d, u, i) ==
    check_and_unlock_achievements(
        ConversationProgress(
            [d EXCEPT !.conversation_sessions[i].messages =
                        [user |-> @.user + 1, assistant |-> @.assistant + 1]],
            u),
        u)

(***************************************************************************)
(* The demo cheat code (endpoints/progress.py 102-193)                     *)
(***************************************************************************)
Max(a, b) == IF a >= b THEN a ELSE b

CheatRow(d, u, m) ==
    IF ~HasRow(d, u, m)
    THEN [score |-> Num(CheatScore), total_attempts |-> CheatAttempts,
          correct_attempts |-> CheatAttempts]
    ELSE LET progress == _get_module_progress(d, u, m)
         IN [score |-> Num(CheatScore),
             total_attempts |-> Max(progress.total_attempts, CheatAttempts),
             correct_attempts |-> Max(progress.correct_attempts, CheatAttempts)]

apply_cheat_code(d, u, t) ==
    LET rows == [k \in {u} \X {"vocabulary", "grammar", "writing", "phonetics"} |->
                    CheatRow(d, u, k[2])]
        existing_messages == _get_conversation_message_count(d, u)
    IN [d EXCEPT
           !.user_progress = rows @@ @,
           !.conversation_sessions =
               IF existing_messages < CheatMessages
               THEN Append(@, [user_id |-> u, messages |-> DummyMessages])
               ELSE @,
           !.users[u].can_advance = TRUE,
           !.users[u].advancement_notified_at = t]

(***************************************************************************)
(* The handlers that set the level directly                                *)
(***************************************************************************)
\* auth_service.update_user_level, then endpoints/auth.py 127-129
update_user_level(d, u, level) ==
    [d EXCEPT !.users[u].level = level,
              !.users[u].placement_test_completed = TRUE]

\* placement_test_service.py 233-245
DeterminedLevel(overall_score) ==
    IF overall_score >= 90 THEN "C2"
    ELSE IF overall_score >= 80 THEN "C1"
    ELSE IF overall_score >= 65 THEN "B2"
    ELSE IF overall_score >= 45 THEN "B1"
    ELSE IF overall_score >= 30 THEN "A2"
    ELSE "A1"

\* placement_test_service.py 255-262
calculate_results(d, u, overall_score) ==
    [d EXCEPT !.users[u].level = DeterminedLevel(overall_score),
              !.users[u].placement_test_completed = TRUE]

(***************************************************************************)
(* get_user_progress_summary: the read behind GET /progress/summary        *)
(***************************************************************************)
ModulesReady(eligibility) ==
    Cardinality({i \in 1..Len(SCORED_MODULES) : eligibility.modules[SCORED_MODULES[i]].ready})
    + (IF eligibility.conversation_ready THEN 1 ELSE 0)

get_user_progress_summary(d, u) ==
    IF ~UserExists(d, u) THEN [ok |-> FALSE, error |-> <<"User not found">>]
    ELSE LET eligibility == calculate_advancement_eligibility(d, u)
             user == d.users[u]
         IN IF "conversation_messages" \notin DOMAIN eligibility
            THEN \* line 220 reads a key the early returns of the check do not set
                 [ok |-> FALSE, error |-> <<"KeyError", "conversation_messages">>]
            ELSE [ok |-> TRUE,
                  current_level |-> user.level,
                  next_level |-> get_next_level(user.level),
                  can_advance |-> eligibility.eligible,
                  advancement_reason |-> eligibility.reason,
                  overall_progress |-> (ModulesReady(eligibility) * 100) \div 5,
                  weighted_score |->
                      WeightedScore([m \in DOMAIN eligibility.modules |->
                                        eligibility.modules[m].score]),
                  total_messages |-> eligibility.conversation_messages,
                  time_at_current_level |-> DaysAtLevel(user, now),
                  total_xp |-> user.total_xp]

(***************************************************************************)
(* Actions: one per request                                                *)
(***************************************************************************)
Registered == DOMAIN db.users

WritingScores == {75, 100}

PronunciationScores == {0, 100}

PlacementScores == {20, 95}

\* the levels PUT /me/level is called with: the first stage, the last but one, the last
LevelChoices == {"A1", "C1", "C2"}

Activity(d) ==
    /\ tx = Idle
    /\ steps < MaxSteps
    /\ db' = d
    /\ steps' = steps + 1
    /\ UNCHANGED <<shown, reqs, now, tx>>

SubmitVocabularyAnswer(u, is_correct) ==
    /\ u \in Registered
    /\ Activity(submit_vocabulary_answer(db, u, is_correct, now))
    /\ last' = [op |-> "submit_vocabulary_answer", user |-> u]

SubmitGrammarAnswer(u, is_correct) ==
    /\ u \in Registered
    /\ Activity(submit_grammar_answer(db, u, is_correct, now))
    /\ last' = [op |-> "submit_grammar_answer", user |-> u]

GetWritingFeedback(u, score) ==
    /\ u \in Registered
    /\ Activity(get_writing_feedback(db, u, score, now))
    /\ last' = [op |-> "get_writing_feedback", user |-> u]

EvaluatePronunciation(u, score, low_confidence) ==
    /\ u \in Registered
    /\ Activity(evaluate_pronunciation(db, u, score, low_confidence, now))
    /\ last' = [op |-> "evaluate_pronunciation", user |-> u]

StartConversation(u) ==
    /\ tx = Idle
    /\ u \in Registered
    /\ UserSessions(db, u) = <<>>
    /\ db' = start_conversation(db, u)
    /\ last' = [op |-> "start_conversation", user |-> u]
    /\ UNCHANGED <<shown, reqs, now, tx, steps>>

SendMessage(u, i) ==
    /\ u \in Registered
    /\ IF db.conversation_sessions[i].user_id # u
       THEN /\ tx = Idle
            /\ last' = [op |-> "send_message", user |-> u, ok |-> FALSE,
                        error |-> <<"Invalid user for this session">>]
            /\ UNCHANGED <<shown, reqs, db, now, tx, steps>>
       ELSE /\ Activity(send_message(db, u, i))
            /\ last' = [op |-> "send_message", user |-> u, ok |-> TRUE]

ApplyCheatCode(u, valid_code) ==
    /\ tx = Idle
    /\ u \in Registered
    /\ db' = IF valid_code THEN apply_cheat_code(db, u, now) ELSE db
    /\ last' = [op |-> "apply_cheat_code", user |-> u, ok |-> valid_code]
    /\ UNCHANGED <<shown, reqs, now, tx, steps>>

UpdateLevel(u, level) ==
    /\ tx = Idle
    /\ u \in Registered
    /\ db' = update_user_level(db, u, level)
    /\ last' = [op |-> "update_user_level", user |-> u]
    /\ UNCHANGED <<shown, reqs, now, tx, steps>>

CalculateResults(u, overall_score) ==
    /\ tx = Idle
    /\ u \in Registered
    /\ db' = calculate_results(db, u, overall_score)
    /\ last' = [op |-> "calculate_results", user |-> u]
    /\ UNCHANGED <<shown, reqs, now, tx, steps>>

\* the check gone wrong: it refreshes the cached flag
CheckEligibilityCaching(u) ==
    /\ last' = [op |-> "calculate_advancement_eligibility", user |-> u,
                ret |-> calculate_advancement_eligibility(db, u)]
    /\ db' = [db EXCEPT !.users[u].can_advance =
                            calculate_advancement_eligibility(db, u).eligible]
    /\ UNCHANGED <<shown, reqs, now, tx, steps>>

\* a read by any request, also while an advancement is in progress
CheckEligibility(u) ==
    /\ last' = [op |-> "calculate_advancement_eligibility", user |-> u,
                ret |-> calculate_advancement_eligibility(db, u)]
    /\ UNCHANGED <<shown, reqs, db, now, tx, steps>>

\* POST /progress/advance, start to commit in one step
AdvanceLevel(u) ==
    /\ tx = Idle
    /\ LET r == advance_user_level(db, u, now)
       IN /\ r.ret.ok => steps < MaxSteps
          /\ db' = r.db
          /\ steps' = IF r.ret.ok THEN steps + 1 ELSE steps
          /\ last' = [op |-> "advance_user_level", user |-> u, ret |-> r.ret]
    /\ UNCHANGED <<shown, reqs, now, tx>>

Tick ==
    /\ tx = Idle
    /\ steps < MaxSteps
    /\ now' = now + 1
    /\ steps' = steps + 1
    /\ UNCHANGED <<shown, reqs, db, last, tx>>

(***************************************************************************)
(* advance_user_level as the statements of one database transaction.  The  *)
(* session works on its own view of the tables; an exception closes the    *)
(* session (get_db) and the view is dropped.                               *)
(***************************************************************************)
TxBegin(u) ==
    /\ tx = Idle
    /\ LET r == advance_user_level(db, u, now)
       IN IF r.ret.ok
          THEN /\ steps < MaxSteps
               /\ tx' = [pc |-> "archive", user |-> u, view |-> db, pre |-> db,
                         old_level |-> r.ret.old_level, new_level |-> r.ret.new_level]
               /\ UNCHANGED <<shown, reqs, last>>
          ELSE /\ tx' = tx
               /\ last' = [op |-> "advance_user_level", user |-> u, ret |-> r.ret]
    /\ UNCHANGED <<shown, reqs, db, now, steps>>

TxStep(pc, next_pc, view) ==
    /\ tx # Idle
    /\ tx.pc = pc
    /\ tx' = [tx EXCEPT !.pc = next_pc, !.view = view]

TxArchive ==
    /\ TxStep("archive", "reset", ArchiveHistory(tx.view, tx.user, now))
    /\ UNCHANGED <<shown, reqs, db, now, last, steps>>

\* the reset gone wrong: the bulk delete is committed on the spot
TxResetCommitting ==
    /\ TxStep("reset", "update", reset_progress_for_new_level(tx.view, tx.user))
    /\ db' = reset_progress_for_new_level(tx.view, tx.user)
    /\ UNCHANGED <<shown, reqs, now, last, steps>>

TxReset ==
    /\ TxStep("reset", "update", reset_progress_for_new_level(tx.view, tx.user))
    /\ UNCHANGED <<shown, reqs, db, now, last, steps>>

TxUpdateUser ==
    /\ TxStep("update", "xp", UpdateUserLevel(tx.view, tx.user, tx.new_level, now))
    /\ UNCHANGED <<shown, reqs, db, now, last, steps>>

TxAwardXp ==
    /\ TxStep("xp", "commit", AwardXp(tx.view, tx.user, XpEarned(tx.old_level)))
    /\ UNCHANGED <<shown, reqs, db, now, last, steps>>

TxCommit ==
    /\ tx # Idle
    /\ tx.pc = "commit"
    /\ db' = tx.view
    /\ tx' = Idle
    /\ steps' = steps + 1
    /\ last' = [op |-> "advance_user_level", user |-> tx.user,
                ret |-> [ok |-> TRUE,
                         new_level |-> tx.new_level,
                         old_level |-> tx.old_level,
                         xp_earned |-> XpEarned(tx.old_level),
                         module_scores |-> CollectScores(tx.pre, tx.user)]]
    /\ UNCHANGED <<shown, reqs, now>>

\* the request fails before its commit: HTTP 500, the session is closed
TxAbort ==
    /\ tx # Idle
    /\ tx' = Idle
    /\ last' = [op |-> "advance_user_level", user |-> tx.user,
                ret |-> [ok |-> FALSE, error |-> <<"aborted", tx.pc>>]]
    /\ UNCHANGED <<shown, reqs, db, now, steps>>

Requests ==
    \/ \E u \in Callers, c \in BOOLEAN : SubmitVocabularyAnswer(u, c)
    \/ \E u \in Callers, c \in BOOLEAN : SubmitGrammarAnswer(u, c)
    \/ \E u \in Callers, s \in WritingScores : GetWritingFeedback(u, s)
    \/ \E u \in Callers, s \in PronunciationScores, lc \in BOOLEAN : EvaluatePronunciation(u, s, lc)
    \/ \E u \in Callers : StartConversation(u)
    \/ \E u \in Callers, i \in 1..Len(db.conversation_sessions) : SendMessage(u, i)
    \/ \E u \in Callers, v \in BOOLEAN : ApplyCheatCode(u, v)
    \/ \E u \in Callers, l \in LevelChoices : UpdateLevel(u, l)
    \/ \E u \in Callers, s \in PlacementScores : CalculateResults(u, s)
    \/ \E u \in ServiceArgs : CheckEligibility(u)
    \/ Tick

\* a user who took the placement test into A1 and climbs from there
ClimbLevel(u) ==
    /\ tx = Idle
    /\ LET r == advance_user_level(db, u, now)
       IN /\ db' = r.db
          /\ last' = [op |-> "advance_user_level", user |-> u, ret |-> r.ret]
    /\ UNCHANGED <<shown, reqs, now, tx, steps>>

Next ==
    \/ Requests
    \/ \E u \in ServiceArgs : AdvanceLevel(u)

Spec == Init /\ [][Next]_vars

NextTx ==
    \/ Requests
    \/ \E u \in ServiceArgs : TxBegin(u)
    \/ TxArchive
    \/ TxReset
    \/ TxUpdateUser
    \/ TxAwardXp
    \/ TxCommit
    \/ TxAbort

SpecTx == Init /\ [][NextTx]_vars

InitLadder ==
    /\ db = [FreshDb EXCEPT !.users["u1"].level = "A1",
                            !.users["u1"].placement_test_completed = TRUE]
    /\ now = 0
    /\ last = [op |-> "none"]
    /\ tx = Idle
    /\ steps = 0
    /\ shown = <<>>
    /\ reqs = <<>>

NextLadder ==
    \/ \E u \in Callers, c \in BOOLEAN : SubmitVocabularyAnswer(u, c)
    \/ \E u \in Callers, s \in WritingScores : GetWritingFeedback(u, s)
    \/ \E u \in Callers : ApplyCheatCode(u, TRUE)
    \/ \E u \in ServiceArgs : CheckEligibility(u)
    \/ \E u \in ServiceArgs : ClimbLevel(u)
    \/ Tick

SpecLadder == InitLadder /\ [][NextLadder]_vars

(***************************************************************************)
(* srs_service.py.  An easiness factor is held in hundredths (2.5 is 250): *)
(* calculate_sm2 returns it rounded to two decimals, and the six quality   *)
(* adjustments are whole hundredths.                                       *)
(***************************************************************************)
InitialEF == 250
MinimumEF == 130
FirstInterval == 1
SecondInterval == 6

\* Python round(p / q) for p >= 0, q > 0: to the nearest, a half to the even
RoundHalfEven(p, q) ==
    LET floor == p \div q
        twice == 2 * (p % q)
    IN IF twice > q \/ (twice = q /\ floor % 2 = 1) THEN floor + 1 ELSE floor

\* (0.1 - (5 - q) * (0.08 + (5 - q) * 0.02)) in hundredths
EFAdjustment(quality) == 10 - (5 - quality) * (8 + (5 - quality) * 2)

\* the floor gone wrong: the easiness factor is left where the formula puts it
ClampEFMissing(ef) == ef

\* lines 37-39
ClampEF(ef) == IF ef < MinimumEF THEN MinimumEF ELSE ef

\* lines 45-46 gone wrong: classical SM-2 restarts the count
FailedRepetitionsRestart(repetitions) == 0

\* line 45
FailedRepetitions(repetitions) == IF repetitions - 2 > 0 THEN repetitions - 2 ELSE 0

\* lines 51-56
NextInterval(new_repetitions, interval, new_ef) ==
    IF new_repetitions = 1 THEN FirstInterval
    ELSE IF new_repetitions = 2 THEN SecondInterval
    ELSE RoundHalfEven(interval * new_ef, 100)

\* the schedule gone wrong: the interval grows by the factor from before the review
calculate_sm2_stale_factor(quality, easiness_factor, repetitions, interval) ==
    LET new_ef == ClampEF(easiness_factor + EFAdjustment(quality))
    IN IF quality < 3
       THEN [easiness_factor |-> new_ef,
             repetitions |-> FailedRepetitions(repetitions),
             interval |-> 1]
       ELSE [easiness_factor |-> new_ef,
             repetitions |-> repetitions + 1,
             interval |-> NextInterval(repetitions + 1, interval, easiness_factor)]

calculate_sm2(quality, easiness_factor, repetitions, interval) ==
    LET new_ef == ClampEF(easiness_factor + EFAdjustment(quality))
    IN IF quality < 3
       THEN [easiness_factor |-> new_ef,
             repetitions |-> FailedRepetitions(repetitions),
             interval |-> 1]
       ELSE [easiness_factor |-> new_ef,
             repetitions |-> repetitions + 1,
             interval |-> NextInterval(repetitions + 1, interval, new_ef)]

(***************************************************************************)
(* The pure functions applied to inputs: each initial state holds one      *)
(* input in `last`, an action applies the function to it.                  *)
(***************************************************************************)
MaxRepetitions == 3
MaxInterval == 6
MaxReviews == 3

\* a level that is not one of the six
UnknownLevel == "X9"

LevelInputs == Levels \cup {NoLevel, UnknownLevel}

ScoreInputs == {None, Num(0), Num(60), Num(70), Num(80), Num(90)}

RowInputs ==
    {[has_row |-> FALSE, score |-> None]}
        \cup {[has_row |-> TRUE, score |-> sc] : sc \in ScoreInputs}

ModuleNames == {SCORED_MODULES[k] : k \in 1..Len(SCORED_MODULES)}

Qualities == 0..5

\* the initial factor, the floor, and values the adjustments lead to
EFInputs == {130, 136, 170, 250, 260}

PureInputs ==
    {[op |-> "level", level |-> l] : l \in LevelInputs}
        \cup {[op |-> "rows", rows |-> r] : r \in [ModuleNames -> RowInputs]}
        \cup {[op |-> "review",
               easiness_factor |-> ef, repetitions |-> r, interval |-> i,
               first |-> [easiness_factor |-> ef, repetitions |-> r, interval |-> i],
               qualities |-> <<>>,
               intervals |-> <<>>] :
                  ef \in EFInputs, r \in 0..MaxRepetitions, i \in 1..MaxInterval}

InitPure ==
    /\ db = NearReadyDb
    /\ now = 0
    /\ last \in PureInputs
    /\ tx = Idle
    /\ steps = 0
    /\ shown = <<>>
    /\ reqs = <<>>

ApplyGetNextLevel ==
    /\ last.op = "level"
    /\ last' = [op |-> "get_next_level", level |-> last.level,
                ret |-> get_next_level(last.level)]
    /\ UNCHANGED <<shown, reqs, db, now, tx, steps>>

\* the progress rows of u1 as the input gives them
WithRows(d, u, rows) ==
    [d EXCEPT !.user_progress =
        [k \in (DOMAIN @ \ ({u} \X ModuleNames))
                 \cup {<<u, m>> : m \in {n \in ModuleNames : rows[n].has_row}} |->
            IF k[1] = u /\ k[2] \in ModuleNames
            THEN ProgressRow(rows[k[2]].score, MINIMUM_ATTEMPTS, 0)
            ELSE @[k]]]

\* lines 298-346 on those rows
ApplyArchiveHistory ==
    /\ last.op = "rows"
    /\ db' = ArchiveHistory(WithRows(db, "u1", last.rows), "u1", now)
    /\ last' = [op |-> "archive_history", rows |-> last.rows]
    /\ UNCHANGED <<shown, reqs, now, tx, steps>>

\* one more review of the item whose parameters `last` holds
ApplyCalculateSm2(quality) ==
    /\ last.op \in {"review", "calculate_sm2"}
    /\ steps < MaxReviews
    /\ LET ret == calculate_sm2(quality, last.easiness_factor,
                                last.repetitions, last.interval)
       IN last' = [op |-> "calculate_sm2",
                   quality |-> quality,
                   old |-> [easiness_factor |-> last.easiness_factor,
                            repetitions |-> last.repetitions,
                            interval |-> last.interval],
                   easiness_factor |-> ret.easiness_factor,
                   repetitions |-> ret.repetitions,
                   interval |-> ret.interval,
                   first |-> last.first,
                   qualities |-> Append(last.qualities, quality),
                   intervals |-> Append(last.intervals, ret.interval)]
    /\ steps' = steps + 1
    /\ UNCHANGED <<shown, reqs, db, now, tx>>

NextPure ==
    \/ ApplyGetNextLevel
    \/ ApplyArchiveHistory
    \/ \E quality \in Qualities : ApplyCalculateSm2(quality)

SpecPure == InitPure /\ [][NextPure]_vars

(***************************************************************************)
(* The review queue: vocabulary_reviews rows, their id the position in the *)
(* table.  Dates are whole days, an interval of n days is n ticks.         *)
(***************************************************************************)
MaxClock == 2
MaxShown == 3

Words == {"casa", "perro"}

\* the answers to a review: a slip rated 1, a perfect recall rated 5
ReviewAnswers == {[quality |-> 1, is_correct |-> FALSE], [quality |-> 5, is_correct |-> TRUE]}

ReviewIds(d) == 1..Len(d.vocabulary_reviews)

\* lines 86-92: the first row of the user with the word in the user's language
ExistingReview(d, u, word) ==
    LET ids == {i \in ReviewIds(d) :
                  /\ d.vocabulary_reviews[i].user_id = u
                  /\ d.vocabulary_reviews[i].word = word
                  /\ d.vocabulary_reviews[i].target_language = d.users[u].target_language}
    IN IF ids = {} THEN 0 ELSE CHOOSE i \in ids : \A j \in ids : i <= j

\* lines 102-112
NewReview(u, word, language, t) ==
    [user_id |-> u,
     word |-> word,
     target_language |-> language,
     easiness_factor |-> InitialEF,
     repetitions |-> 0,
     interval |-> 1,
     next_review_date |-> t,
     last_reviewed_at |-> NoTime]

\* the lookup gone wrong: an existing row is always made due now
add_word_to_srs_always_due(d, u, word, t) ==
    LET existing == ExistingReview(d, u, word)
    IN IF existing # 0
       THEN [db |-> [d EXCEPT !.vocabulary_reviews[existing].next_review_date = t],
             ok |-> TRUE, id |-> existing, created |-> FALSE]
       ELSE [db |-> [d EXCEPT !.vocabulary_reviews =
                        Append(@, NewReview(u, word, d.users[u].target_language, t))],
             ok |-> TRUE, id |-> Len(d.vocabulary_reviews) + 1, created |-> TRUE]

add_word_to_srs(d, u, word, t) ==
    LET existing == ExistingReview(d, u, word)
    IN IF existing # 0
       THEN [db |-> IF d.vocabulary_reviews[existing].next_review_date > t
                    THEN [d EXCEPT !.vocabulary_reviews[existing].next_review_date = t]
                    ELSE d,
             ok |-> TRUE, id |-> existing, created |-> FALSE]
       ELSE IF d.users[u].target_language = NoLanguage
       THEN \* target_language is not nullable: the insert fails at the commit
            [db |-> d, ok |-> FALSE, id |-> 0, created |-> FALSE]
       ELSE [db |-> [d EXCEPT !.vocabulary_reviews =
                        Append(@, NewReview(u, word, d.users[u].target_language, t))],
             ok |-> TRUE, id |-> Len(d.vocabulary_reviews) + 1, created |-> TRUE]

\* lines 142-155 on the row as read
ReviewedRow(row, quality, t) ==
    LET new_params == calculate_sm2(quality, row.easiness_factor,
                                    row.repetitions, row.interval)
    IN [row EXCEPT !.easiness_factor = new_params.easiness_factor,
                   !.repetitions = new_params.repetitions,
                   !.interval = new_params.interval,
                   !.next_review_date = t + new_params.interval,
                   !.last_reviewed_at = t]

\* the lookup gone wrong: an id that finds no row is passed over in silence
update_review_lenient(d, review_id, quality, t) ==
    IF review_id \notin ReviewIds(d)
    THEN [db |-> d, ok |-> TRUE]
    ELSE [db |-> [d EXCEPT !.vocabulary_reviews[review_id] =
                     ReviewedRow(d.vocabulary_reviews[review_id], quality, t)],
          ok |-> TRUE]

update_review(d, review_id, quality, t) ==
    IF review_id \notin ReviewIds(d)
    THEN [db |-> d, ok |-> FALSE, error |-> <<"Review not found", review_id>>]
    ELSE [db |-> [d EXCEPT !.vocabulary_reviews[review_id] =
                     ReviewedRow(d.vocabulary_reviews[review_id], quality, t)],
          ok |-> TRUE]

\* the rows the filter of lines 174-178 keeps
DueIds(d, u, t) ==
    {i \in ReviewIds(d) :
        /\ d.vocabulary_reviews[i].user_id = u
        /\ d.vocabulary_reviews[i].next_review_date <= t}

\* the orders ORDER BY next_review_date can return a set of rows in: rows
\* with the same date come in any order
OrdersByDate(d, ids) ==
    {order \in [1..Cardinality(ids) -> ids] :
        /\ \A i, j \in 1..Cardinality(ids) : i # j => order[i] # order[j]
        /\ \A i, j \in 1..Cardinality(ids) :
              i < j => d.vocabulary_reviews[order[i]].next_review_date
                         <= d.vocabulary_reviews[order[j]].next_review_date}

\* the query gone wrong: the rows of every user
get_due_reviews_of_everyone(d, u, t) ==
    OrdersByDate(d, {i \in ReviewIds(d) : d.vocabulary_reviews[i].next_review_date <= t})

\* the lists get_due_reviews can return
get_due_reviews(d, u, t) == OrdersByDate(d, DueIds(d, u, t))

\* u1 reviewed casa once on day 0 (quality 5) and was then given perro,
\* which is still unanswered; u2 has one word that is due
SeededReviews ==
    << [NewReview("u1", "casa", "es", 1) EXCEPT
            !.easiness_factor = 260, !.repetitions = 1, !.last_reviewed_at = 0],
       NewReview("u2", "casa", "es", 0),
       NewReview("u1", "perro", "es", 0) >>

InitSrs ==
    /\ \E p \in {<<NearReadyDb, 0>>,
                 <<[NearReadyDb EXCEPT !.vocabulary_reviews = SeededReviews], 0>>,
                 <<[NearReadyDb EXCEPT !.vocabulary_reviews = SeededReviews], 1>>} :
          /\ db = p[1]
          /\ now = p[2]
    /\ last = [op |-> "none"]
    /\ tx = Idle
    /\ steps = 0
    /\ shown = <<>>
    /\ reqs = <<>>

\* one serving, as the history of servings keeps it
Serving(u, id, is_review, due) ==
    [user |-> u, review_id |-> id, is_review |-> is_review, due |-> due]

\* GET /vocabulary/next: the first due review, or else a word the language
\* model comes up with, which is put into the queue
GetNextFlashcard(u, word) ==
    /\ tx = Idle
    /\ u \in Registered
    /\ db.users[u].target_language # NoLanguage
    /\ db.users[u].level # NoLevel
    /\ Len(shown) < MaxShown
    /\ IF DueIds(db, u, now) # {}
       THEN /\ \E due_reviews \in get_due_reviews(db, u, now) :
                 /\ last' = [op |-> "get_next_flashcard", user |-> u,
                             is_review |-> TRUE, review_id |-> due_reviews[1],
                             word |-> db.vocabulary_reviews[due_reviews[1]].word]
                 /\ shown' = Append(shown, Serving(u, due_reviews[1], TRUE,
                                                   DueIds(db, u, now)))
            /\ UNCHANGED db
       ELSE LET r == add_word_to_srs(db, u, word, now)
            IN /\ db' = r.db
               /\ last' = [op |-> "get_next_flashcard", user |-> u,
                           is_review |-> FALSE, review_id |-> r.id, word |-> word]
               /\ shown' = Append(shown, Serving(u, r.id, FALSE, {}))
    /\ UNCHANGED <<now, tx, steps, reqs>>

\* POST /vocabulary/answer with review_id and quality: update_review
\* commits, then the vocabulary progress row is updated
SubmitReviewAnswer(u, review_id, quality, is_correct) ==
    /\ tx = Idle
    /\ u \in Registered
    /\ steps < MaxReviews
    /\ LET r == update_review(db, review_id, quality, now)
       IN IF r.ok
          THEN /\ db' = submit_vocabulary_answer(r.db, u, is_correct, now)
               /\ steps' = steps + 1
               /\ last' = [op |-> "submit_vocabulary_answer", user |-> u,
                           review_id |-> review_id, quality |-> quality, ok |-> TRUE]
          ELSE /\ last' = [op |-> "submit_vocabulary_answer", user |-> u,
                           review_id |-> review_id, quality |-> quality, ok |-> FALSE]
               /\ UNCHANGED <<db, steps>>
    /\ UNCHANGED <<now, tx, shown, reqs>>

\* the check gone wrong: it lists the due rows of every user
GetDueReviewsOfEveryone(u) ==
    /\ \E due_reviews \in get_due_reviews_of_everyone(db, u, now) :
          last' = [op |-> "get_due_reviews", user |-> u, at |-> now,
                   ret |-> due_reviews]
    /\ UNCHANGED <<db, now, tx, steps, shown, reqs>>

GetDueReviews(u) ==
    /\ \E due_reviews \in get_due_reviews(db, u, now) :
          last' = [op |-> "get_due_reviews", user |-> u, at |-> now,
                   ret |-> due_reviews]
    /\ UNCHANGED <<db, now, tx, steps, shown, reqs>>

AddWordToSrs(u, word) ==
    /\ tx = Idle
    /\ u \in Registered
    /\ LET r == add_word_to_srs(db, u, word, now)
       IN /\ db' = r.db
          /\ last' = [op |-> "add_word_to_srs", user |-> u, word |-> word,
                      ok |-> r.ok, id |-> r.id, created |-> r.created]
    /\ UNCHANGED <<now, tx, steps, shown, reqs>>

Day ==
    /\ tx = Idle
    /\ now < MaxClock
    /\ now' = now + 1
    /\ UNCHANGED <<db, last, tx, steps, shown, reqs>>

SubmitReviews ==
    \E u \in Callers, review_id \in 1..(Len(db.vocabulary_reviews) + 1),
       answer \in ReviewAnswers :
         SubmitReviewAnswer(u, review_id, answer.quality, answer.is_correct)

NextSrs ==
    \/ SubmitReviews
    \/ \E u \in ServiceArgs : GetDueReviews(u)
    \/ \E u \in ServiceArgs, word \in Words : AddWordToSrs(u, word)
    \/ Day

SpecSrs == InitSrs /\ [][NextSrs]_vars

NextQueue ==
    \/ \E u \in Callers, word \in Words : GetNextFlashcard(u, word)
    \/ SubmitReviews
    \/ Day

SpecQueue == InitSrs /\ [][NextQueue]_vars

\* the ratings a request can carry: quality is an optional integer with no
\* range in the schema (schemas/vocabulary.py 31)
RatingInputs == {-1, 5, 6}

NextRating ==
    \/ \E u \in Callers, review_id \in 1..(Len(db.vocabulary_reviews) + 1),
          quality \in RatingInputs, is_correct \in BOOLEAN :
            SubmitReviewAnswer(u, review_id, quality, is_correct)
    \/ Day

SpecRating == InitSrs /\ [][NextRating]_vars

(***************************************************************************)
(* POST /vocabulary/answer as the statements of one request.  Each request *)
(* has its own session: a SELECT loads a row into the session, the handler *)
(* computes on the loaded copy, and the commit sends an UPDATE that sets   *)
(* the attributes whose value differs from the loaded one.  Nothing in the *)
(* handler locks a row, checks a version or re-reads before it writes, so  *)
(* statements of requests served by different workers interleave freely.   *)
(***************************************************************************)
MaxRequests == 2

\* u1 of NearReadyDb after the tenth right grammar answer, which makes the
\* user eligible, with the seeded review rows
RaceDb ==
    [submit_grammar_answer(NearReadyDb, "u1", TRUE, 0) EXCEPT
        !.vocabulary_reviews = SeededReviews]

InitRace ==
    /\ db = RaceDb
    /\ now = 1
    /\ last = [op |-> "none"]
    /\ tx = Idle
    /\ steps = 0
    /\ shown = <<>>
    /\ reqs = <<>>

\* the UPDATE of a commit: of the row as it is now, the attributes the
\* handler gave a value other than the loaded one are overwritten
Flush(current, loaded, changed) ==
    [a \in DOMAIN current |->
        IF changed[a] = loaded[a] THEN current[a] ELSE changed[a]]

\* vocabulary.py 350-356 on the loaded row
AnsweredRow(loaded, is_correct) ==
    LET total == loaded.total_attempts + 1
        correct == loaded.correct_attempts + (IF is_correct THEN 1 ELSE 0)
    IN [score |-> IF total > 0 THEN Rat(correct * 100, total) ELSE loaded.score,
        total_attempts |-> total,
        correct_attempts |-> correct]

\* the request arrives; review_id 0 stands for a request without review_id
BeginAnswer(u, review_id, quality, is_correct) ==
    /\ tx = Idle
    /\ u \in Registered
    /\ Len(reqs) < MaxRequests
    /\ reqs' = Append(reqs, [user |-> u, review_id |-> review_id,
                             quality |-> quality, is_correct |-> is_correct,
                             pc |-> IF review_id # 0 THEN "review_read"
                                    ELSE "progress_read",
                             review |-> <<>>, progress |-> <<>>])
    /\ UNCHANGED <<db, now, last, tx, steps, shown>>

\* srs_service.py 137-140: the SELECT of update_review
ReadReview(r) ==
    /\ reqs[r].pc = "review_read"
    /\ IF reqs[r].review_id \in ReviewIds(db)
       THEN reqs' = [reqs EXCEPT
                        ![r].review = <<db.vocabulary_reviews[reqs[r].review_id]>>,
                        ![r].pc = "review_write"]
       ELSE reqs' = [reqs EXCEPT ![r].pc = "failed"]
    /\ UNCHANGED <<db, now, last, tx, steps, shown>>

\* srs_service.py 143-157: the new values from the loaded row, and the commit
WriteReview(r) ==
    /\ reqs[r].pc = "review_write"
    /\ LET loaded == reqs[r].review[1]
       IN db' = [db EXCEPT !.vocabulary_reviews[reqs[r].review_id] =
                    Flush(@, loaded, ReviewedRow(loaded, reqs[r].quality, now))]
    /\ reqs' = [reqs EXCEPT ![r].pc = "progress_read"]
    /\ UNCHANGED <<now, last, tx, steps, shown>>

\* vocabulary.py 335-338: the SELECT of the vocabulary progress row
ReadProgress(r) ==
    /\ reqs[r].pc = "progress_read"
    /\ reqs' = [reqs EXCEPT
                   ![r].progress =
                       IF HasRow(db, reqs[r].user, "vocabulary")
                       THEN <<_get_module_progress(db, reqs[r].user, "vocabulary")>>
                       ELSE <<>>,
                   ![r].pc = "progress_write"]
    /\ UNCHANGED <<db, now, last, tx, steps, shown>>

\* vocabulary.py 340-372: the new counts from the loaded row, the commit,
\* and the checks that follow it
WriteProgress(r) ==
    /\ reqs[r].pc = "progress_write"
    /\ LET u == reqs[r].user
           written ==
               IF reqs[r].progress = <<>>
               THEN PutRow(db, u, "vocabulary",
                           AnsweredRow(ProgressRow(None, 0, 0), reqs[r].is_correct))
               ELSE PutRow(db, u, "vocabulary",
                           Flush(_get_module_progress(db, u, "vocabulary"),
                                 reqs[r].progress[1],
                                 AnsweredRow(reqs[r].progress[1], reqs[r].is_correct)))
       IN db' = NotifyAdvancement(check_and_unlock_achievements(written, u), u, now)
    /\ reqs' = [reqs EXCEPT ![r].pc = "done"]
    /\ last' = [op |-> "submit_vocabulary_answer", user |-> reqs[r].user,
                review_id |-> reqs[r].review_id, quality |-> reqs[r].quality,
                ok |-> TRUE]
    /\ UNCHANGED <<now, tx, steps, shown>>

NextRace ==
    \/ \E u \in Callers, review_id \in {0, 1}, answer \in ReviewAnswers :
          BeginAnswer(u, review_id, answer.quality, answer.is_correct)
    \/ \E r \in 1..Len(reqs) : ReadReview(r)
    \/ \E r \in 1..Len(reqs) : WriteReview(r)
    \/ \E r \in 1..Len(reqs) : ReadProgress(r)
    \/ \E r \in 1..Len(reqs) : WriteProgress(r)
    \/ \E u \in Callers : AdvanceLevel(u)

SpecRace == InitRace /\ [][NextRace]_vars

(***************************************************************************)
(* add_word_to_srs as the statements of one call: the lookup, then the     *)
(* write that depends on what the lookup found.  The table has no unique   *)
(* constraint on user, word and language (models.py 161-164 declares two   *)
(* plain indexes), so nothing in the database rejects a second insert.     *)
(***************************************************************************)
BeginAddWord(u, word) ==
    /\ tx = Idle
    /\ u \in Registered
    /\ db.users[u].target_language # NoLanguage
    /\ Len(reqs) < MaxRequests
    /\ reqs' = Append(reqs, [user |-> u, word |-> word, pc |-> "lookup",
                             existing |-> 0, review |-> <<>>])
    /\ UNCHANGED <<db, now, last, tx, steps, shown>>

\* srs_service.py 86-92
LookupWord(r) ==
    /\ reqs[r].pc = "lookup"
    /\ LET existing == ExistingReview(db, reqs[r].user, reqs[r].word)
       IN reqs' = [reqs EXCEPT
                      ![r].existing = existing,
                      ![r].review = IF existing = 0 THEN <<>>
                                    ELSE <<db.vocabulary_reviews[existing]>>,
                      ![r].pc = "write"]
    /\ UNCHANGED <<db, now, last, tx, steps, shown>>

\* srs_service.py 94-116: the date of the row found is brought to now, or a
\* new row is inserted; then the commit
WriteWord(r) ==
    /\ reqs[r].pc = "write"
    /\ LET u == reqs[r].user
           existing == reqs[r].existing
       IN IF existing # 0
          THEN /\ db' = IF reqs[r].review[1].next_review_date > now
                        THEN [db EXCEPT !.vocabulary_reviews[existing].next_review_date = now]
                        ELSE db
               /\ last' = [op |-> "add_word_to_srs", user |-> u, word |-> reqs[r].word,
                           ok |-> TRUE, id |-> existing, created |-> FALSE]
          ELSE /\ db' = [db EXCEPT !.vocabulary_reviews =
                            Append(@, NewReview(u, reqs[r].word,
                                                db.users[u].target_language, now))]
               /\ last' = [op |-> "add_word_to_srs", user |-> u, word |-> reqs[r].word,
                           ok |-> TRUE, id |-> Len(db.vocabulary_reviews) + 1,
                           created |-> TRUE]
    /\ reqs' = [reqs EXCEPT ![r].pc = "done"]
    /\ UNCHANGED <<now, tx, steps, shown>>

NextAddRace ==
    \/ \E u \in Callers, word \in Words : BeginAddWord(u, word)
    \/ \E r \in 1..Len(reqs) : LookupWord(r)
    \/ \E r \in 1..Len(reqs) : WriteWord(r)
    \/ Day

SpecAddRace == InitSrs /\ [][NextAddRace]_vars

(***************************************************************************)
(* POST /progress/advance as the statements of one request: the reads up   *)
(* to the checks of lines 283-296, then the writes and the commit.  The    *)
(* session computes on the rows it loaded; its commit inserts the history  *)
(* entry, updates the attributes it changed and deletes the sessions.      *)
(***************************************************************************)
BeginAdvance(u) ==
    /\ tx = Idle
    /\ Len(reqs) < MaxRequests
    /\ reqs' = Append(reqs, [user |-> u, pc |-> "check", loaded |-> <<>>, at |-> now])
    /\ UNCHANGED <<db, now, last, tx, steps, shown>>

\* progress_service.py 283-296: the user, the eligibility, the next level
CheckAdvance(r) ==
    /\ reqs[r].pc = "check"
    /\ LET ret == advance_user_level(db, reqs[r].user, now).ret
       IN IF ret.ok
          THEN /\ reqs' = [reqs EXCEPT ![r].loaded = <<db>>, ![r].at = now,
                                       ![r].pc = "commit"]
               /\ UNCHANGED last
          ELSE /\ reqs' = [reqs EXCEPT ![r].pc = "failed"]
               /\ last' = [op |-> "advance_user_level", user |-> reqs[r].user,
                           ret |-> ret]
    /\ UNCHANGED <<db, now, tx, steps, shown>>

\* what the commit of a session that loaded `loaded` and computed `changed`
\* from it makes of the tables as they are now
FlushAdvance(current, loaded, changed, u) ==
    [current EXCEPT
        !.level_history = Append(@, changed.level_history[Len(changed.level_history)]),
        !.user_progress =
            [k \in DOMAIN @ |->
                IF k[1] # u THEN @[k]
                ELSE IF k \in DOMAIN loaded.user_progress
                THEN Flush(@[k], loaded.user_progress[k], changed.user_progress[k])
                ELSE ZeroRow(@[k])],
        !.conversation_sessions = SelectSeq(@, LAMBDA s : s.user_id # u),
        !.users[u] = Flush(@, loaded.users[u], changed.users[u])]

\* progress_service.py 298-361
CommitAdvance(r) ==
    /\ reqs[r].pc = "commit"
    /\ LET u == reqs[r].user
           loaded == reqs[r].loaded[1]
           result == advance_user_level(loaded, u, reqs[r].at)
       IN /\ db' = FlushAdvance(db, loaded, result.db, u)
          /\ last' = [op |-> "advance_user_level", user |-> u, ret |-> result.ret]
    /\ reqs' = [reqs EXCEPT ![r].pc = "done"]
    /\ UNCHANGED <<now, tx, steps, shown>>

NextAdvanceRace ==
    \/ \E u \in Callers : BeginAdvance(u)
    \/ \E r \in 1..Len(reqs) : CheckAdvance(r)
    \/ \E r \in 1..Len(reqs) : CommitAdvance(r)
    \/ \E u \in Callers, c \in BOOLEAN : SubmitVocabularyAnswer(u, c)
    \/ \E u \in Callers, c \in BOOLEAN : SubmitGrammarAnswer(u, c)
    \/ Tick

SpecAdvanceRace == InitRace /\ [][NextAdvanceRace]_vars

(***************************************************************************)
(* Properties                                                              *)
(***************************************************************************)
AdvanceOp == "advance_user_level"

ScoredModuleNames == {SCORED_MODULES[k] : k \in 1..Len(SCORED_MODULES)}

LevelIndex(level) == CHOOSE i \in 1..Len(LEVEL_ORDER) : LEVEL_ORDER[i] = level

\* this step is a call of advance_user_level that returned
AdvanceReturned == last'.op = AdvanceOp /\ (last' # last \/ db' # db)

\* this step is a call of advance_user_level that succeeded
AdvanceSucceeded == AdvanceReturned /\ last'.ret.ok

\* C1: an advancement call for a user whose persisted progress does not make
\* them eligible fails with the not-eligible error, whatever the cached
\* can_advance flag says, and leaves every table as it was.
C1_IneligibleAdvanceRejected ==
    [][(AdvanceReturned /\ UserExists(db, last'.user)
            /\ ~calculate_advancement_eligibility(db, last'.user).eligible)
       => /\ ~last'.ret.ok
          /\ last'.ret.error[1] = "Not eligible to advance"
          /\ db' = db]_vars

C1_Witness ==
    /\ last.op = AdvanceOp
    /\ ~last.ret.ok
    /\ last.ret.error[1] = "Not eligible to advance"
    /\ db.users[last.user].can_advance
    /\ db.users[last.user].level \in Levels \ {"C2"}

\* C2: while an advancement is in progress the committed tables stay equal
\* to their values before the call, reads by other requests see those
\* values, and the tables change only at the commit, where all of history
\* entry, reset, level, level_started_at and XP land together; a request
\* that fails in between leaves the tables untouched.
C2_AdvanceAllOrNothing ==
    [][tx # Idle
       => /\ db = tx.pre
          /\ \/ db' = db
             \/ /\ tx.pc = "commit"
                /\ tx' = Idle
                /\ db' = advance_user_level(tx.pre, tx.user, now).db
                /\ Len(UserHistory(db', tx.user)) = Len(UserHistory(db, tx.user)) + 1
                /\ UserSessions(db', tx.user) = <<>>
                /\ db'.users[tx.user].level = tx.new_level
                /\ db'.users[tx.user].level_started_at = now
                /\ db'.users[tx.user].total_xp
                     = db.users[tx.user].total_xp + XP_REWARDS[tx.old_level]
          /\ (last'.op = "calculate_advancement_eligibility" /\ last' # last)
                => last'.ret = calculate_advancement_eligibility(tx.pre, last'.user)]_vars

\* a request that failed after the level and the XP were changed in its view
C2_Witness ==
    /\ last.op = AdvanceOp
    /\ ~last.ret.ok
    /\ last.ret.error[1] = "aborted"
    /\ last.ret.error[2] = "commit"
    /\ db.users[last.user].level = "A1"
    /\ UserSessions(db, last.user) # <<>>

\* C3: a successful advancement moves the level to the immediate successor
\* in A1, A2, B1, B2, C1, C2; a user who starts at A1 is at the (N+1)-th
\* stage after N advancements; at C2 an advancement attempt fails.
C3_LevelLadder ==
    [][/\ AdvanceSucceeded
            => /\ db.users[last'.user].level \in Levels
               /\ LevelIndex(db'.users[last'.user].level)
                    = LevelIndex(db.users[last'.user].level) + 1
               /\ last'.ret.new_level = db'.users[last'.user].level
       /\ LevelIndex(db'.users["u1"].level) = Len(UserHistory(db', "u1")) + 1
       /\ (AdvanceReturned /\ db.users[last'.user].level = "C2")
            => ~last'.ret.ok /\ db' = db]_vars

\* five advancements later the user is at C2 and a sixth attempt has failed
C3_Witness ==
    /\ last.op = AdvanceOp
    /\ ~last.ret.ok
    /\ db.users["u1"].level = "C2"
    /\ Len(UserHistory(db, "u1")) = 5

\* C4: an advancement attempt by a user at C2 fails with the error of the
\* maximum level, distinct from the not-eligible error.
C4_MaxLevelError ==
    (last.op = AdvanceOp /\ ~last.ret.ok /\ db.users[last.user].level = "C2")
        => last.ret.error[1] = "Already at maximum level"

\* C5 as stated: a level that is set changes only by one stage forward, in
\* a successful advancement.
C5_LevelOnlyForward ==
    [][\A u \in DOMAIN db.users :
          (db.users[u].level # NoLevel /\ db'.users[u].level # db.users[u].level)
            => /\ AdvanceSucceeded
               /\ db'.users[u].level \in Levels
               /\ LevelIndex(db'.users[u].level) = LevelIndex(db.users[u].level) + 1]_vars

LevelSetters == {"update_user_level", "calculate_results"}

\* C5 amended: advance_user_level changes the level of its user only, by
\* one stage forward; submissions, conversations, the cheat code and reads
\* never change a level; update_user_level and calculate_results set the
\* caller's level to the stage they are given or determine.
C5_LevelChanges ==
    [][\A u \in DOMAIN db.users :
          db'.users[u].level # db.users[u].level
            => \/ /\ AdvanceSucceeded
                  /\ last'.user = u
                  /\ db.users[u].level \in Levels
                  /\ LevelIndex(db'.users[u].level) = LevelIndex(db.users[u].level) + 1
               \/ /\ last'.op \in LevelSetters
                  /\ last'.user = u
                  /\ db'.users[u].level \in Levels]_vars

\* a level set back to A1 by hand after an advancement
C5_Witness ==
    /\ last.op = "update_user_level"
    /\ db.users["u1"].level = "A1"
    /\ UserHistory(db, "u1") # <<>>

\* C6: right after a successful advancement every scored module still has
\* its row, with score 0, total_attempts 0 and correct_attempts 0, and the
\* user has no conversation session (so no messages) left.
C6_ProgressReset ==
    (last.op = AdvanceOp /\ last.ret.ok)
        => /\ \A m \in ScoredModuleNames :
                /\ HasRow(db, last.user, m)
                /\ db.user_progress[<<last.user, m>>].score = Num(0)
                /\ db.user_progress[<<last.user, m>>].total_attempts = 0
                /\ db.user_progress[<<last.user, m>>].correct_attempts = 0
           /\ \A i \in 1..Len(db.conversation_sessions) :
                db.conversation_sessions[i].user_id # last.user
           /\ _get_conversation_message_count(db, last.user) = 0

C6_Witness ==
    /\ last.op = AdvanceOp
    /\ last.ret.ok
    /\ last.ret.old_level = "A1"
    /\ \E i \in 1..Len(db.conversation_sessions) :
          db.conversation_sessions[i].user_id # last.user

\* C7: a successful advancement appends one history record carrying the
\* level left and the scores, attempt counts and conversation message count
\* as they were before the call; no other step adds, changes or removes a
\* record.
C7_HistoryAppendOnly ==
    [][/\ Len(db'.level_history) >= Len(db.level_history)
       /\ SubSeq(db'.level_history, 1, Len(db.level_history)) = db.level_history
       /\ Len(db'.level_history)
            = Len(db.level_history) + (IF AdvanceSucceeded THEN 1 ELSE 0)
       /\ AdvanceSucceeded
            => LET u == last'.user
                   entry == db'.level_history[Len(db'.level_history)]
                   row(m) == db.user_progress[<<u, m>>]
               IN /\ entry.user_id = u
                  /\ entry.level = db.users[u].level
                  /\ entry.vocabulary_score = row("vocabulary").score
                  /\ entry.grammar_score = row("grammar").score
                  /\ entry.writing_score = row("writing").score
                  /\ entry.phonetics_score = row("phonetics").score
                  /\ entry.vocabulary_attempts = row("vocabulary").total_attempts
                  /\ entry.grammar_attempts = row("grammar").total_attempts
                  /\ entry.writing_attempts = row("writing").total_attempts
                  /\ entry.phonetics_attempts = row("phonetics").total_attempts
                  /\ entry.conversation_messages
                       = _get_conversation_message_count(db, u)
                  /\ entry.conversation_messages >= CONVERSATION_MINIMUM
                  /\ entry.vocabulary_attempts >= MINIMUM_ATTEMPTS]_vars

\* a second record appended behind the first
C7_Witness ==
    /\ last.op = AdvanceOp
    /\ last.ret.ok
    /\ Len(UserHistory(db, last.user)) = 2

\* C8: a successful advancement adds the reward of the level left, as
\* tabulated, to total_xp and reports it; rewards do not decrease along the
\* level order and C2's is the largest.
C8_XpAward ==
    [][/\ AdvanceSucceeded
            => /\ db'.users[last'.user].total_xp
                    = db.users[last'.user].total_xp + XP_REWARDS[db.users[last'.user].level]
               /\ last'.ret.xp_earned = XP_REWARDS[db.users[last'.user].level]
       /\ \A i, j \in 1..Len(LEVEL_ORDER) :
            i <= j => XP_REWARDS[LEVEL_ORDER[i]] <= XP_REWARDS[LEVEL_ORDER[j]]
       /\ \A l \in Levels : XP_REWARDS[l] <= XP_REWARDS["C2"]]_vars

\* the A2 reward added to the XP earned before
C8_Witness ==
    /\ last.op = AdvanceOp
    /\ last.ret.ok
    /\ last.ret.xp_earned = 200
    /\ db.users[last.user].total_xp = 300

RECURSIVE UserMessagesFrom(_, _, _)
UserMessagesFrom(d, u, i) ==
    IF i > Len(d.conversation_sessions) THEN 0
    ELSE (IF d.conversation_sessions[i].user_id = u
          THEN d.conversation_sessions[i].messages.user ELSE 0)
         + UserMessagesFrom(d, u, i + 1)

MeetsRequirements(d, u) ==
    /\ u \in DOMAIN d.users
    /\ d.users[u].level \in Levels \ {"C2"}
    /\ \A m \in ScoredModuleNames :
          /\ <<u, m>> \in DOMAIN d.user_progress
          /\ d.user_progress[<<u, m>>].score[1] * 1
                >= SCORE_THRESHOLD * d.user_progress[<<u, m>>].score[2]
          /\ d.user_progress[<<u, m>>].total_attempts >= MINIMUM_ATTEMPTS
    /\ UserMessagesFrom(d, u, 1) >= CONVERSATION_MINIMUM

\* C9: for every user id, known or not, the eligibility calculation returns
\* a result, and it says eligible exactly when the user exists, has a level
\* below C2, has in each scored module a row with score >= 85 and at least
\* 10 attempts, and has at least 20 conversation messages of role user.
C9_EligibilityConditions ==
    \A u \in UserIds :
        /\ calculate_advancement_eligibility(db, u).eligible \in BOOLEAN
        /\ calculate_advancement_eligibility(db, u).eligible <=> MeetsRequirements(db, u)

\* eligible on the boundary of ten attempts, next to a user id without a row
C9_Witness ==
    /\ calculate_advancement_eligibility(db, "u1").eligible
    /\ db.user_progress[<<"u1", "grammar">>].total_attempts = MINIMUM_ATTEMPTS
    /\ ~calculate_advancement_eligibility(db, "u3").eligible

\* C10: an eligibility check changes no table, and a check repeated with
\* nothing in between returns what the one before returned.
C10_EligibilityReadOnly ==
    [][(last'.op = "calculate_advancement_eligibility" /\ (last' # last \/ db' # db))
       => /\ db' = db
          /\ now' = now
          /\ last'.ret = calculate_advancement_eligibility(db, last'.user)
          /\ (last.op = "calculate_advancement_eligibility" /\ last.user = last'.user)
                => last'.ret = last.ret]_vars

\* a check that found the user eligible while the cached flag is not set
C10_Witness ==
    /\ last.op = "calculate_advancement_eligibility"
    /\ last.ret.eligible
    /\ ~db.users[last.user].can_advance

\* C11: get_next_level maps A1, A2, B1, B2, C1 to the stage after it, C2
\* to None, and an unset or unrecognized level to A1.
C11_NextLevelTable ==
    last.op = "get_next_level"
        => last.ret = CASE last.level = "A1" -> "A2"
                        [] last.level = "A2" -> "B1"
                        [] last.level = "B1" -> "B2"
                        [] last.level = "B2" -> "C1"
                        [] last.level = "C1" -> "C2"
                        [] last.level = "C2" -> NoLevel
                        [] OTHER -> "A1"

C11_Witness ==
    /\ last.op = "get_next_level"
    /\ last.level = "C2"
    /\ last.ret = NoLevel

\* the number a row input contributes: its score, or 0 when the row or the
\* score is missing
Contribution(row) == IF row.has_row /\ row.score # None THEN row.score[1] ELSE 0

\* C12: the weighted_score of the history record that advance writes is
\* 0.30 vocabulary + 0.30 grammar + 0.20 writing + 0.20 phonetics of the
\* archived scores, a missing or null score counting 0; for 80, 90, 70, 60
\* it is 77.
C12_WeightedScore ==
    last.op = "archive_history"
        => LET entry == db.level_history[Len(db.level_history)]
               rows == last.rows
           IN /\ 100 * entry.weighted_score[1]
                    = entry.weighted_score[2]
                        * (30 * Contribution(rows["vocabulary"])
                           + 30 * Contribution(rows["grammar"])
                           + 20 * Contribution(rows["writing"])
                           + 20 * Contribution(rows["phonetics"]))
              /\ entry.vocabulary_score
                    = (IF rows["vocabulary"].has_row THEN rows["vocabulary"].score ELSE None)
              /\ (/\ Contribution(rows["vocabulary"]) = 80
                  /\ Contribution(rows["grammar"]) = 90
                  /\ Contribution(rows["writing"]) = 70
                  /\ Contribution(rows["phonetics"]) = 60)
                    => entry.weighted_score = <<77, 1>>

\* 80, 90, 70 with the phonetics row missing: 0.3 * 80 + 0.3 * 90 + 0.2 * 70 = 65
C12_Witness ==
    /\ last.op = "archive_history"
    /\ last.rows["vocabulary"].score = Num(80)
    /\ last.rows["grammar"].score = Num(90)
    /\ last.rows["writing"].score = Num(70)
    /\ ~last.rows["phonetics"].has_row
    /\ db.level_history[Len(db.level_history)].weighted_score = <<65, 1>>

\* C15: for every quality 0..5 and every item with easiness factor >= 1.3,
\* repetitions >= 0 and interval >= 1, calculate_sm2 returns an easiness
\* factor >= 1.3, and so it stays through any sequence of reviews.
C15_EasinessFloor ==
    last.op = "calculate_sm2"
        => /\ last.old.easiness_factor >= MinimumEF
           /\ last.easiness_factor >= MinimumEF
           /\ last.easiness_factor
                = (IF last.old.easiness_factor + EFAdjustment(last.quality) >= MinimumEF
                   THEN last.old.easiness_factor + EFAdjustment(last.quality)
                   ELSE MinimumEF)

\* a blackout on an item at 1.36: the formula gives 0.56, the result is 1.3
C15_Witness ==
    /\ last.op = "calculate_sm2"
    /\ last.quality = 0
    /\ last.old.easiness_factor = 136
    /\ last.easiness_factor = MinimumEF
    /\ Len(last.qualities) = 2

\* C16: a quality >= 3 adds one to the repetitions; a quality < 3 takes two
\* off them, stopping at 0, and sets the interval to 1.
C16_Repetitions ==
    last.op = "calculate_sm2"
        => /\ last.quality >= 3 => last.repetitions = last.old.repetitions + 1
           /\ last.quality < 3
                => /\ last.repetitions
                        = (IF last.old.repetitions >= 2 THEN last.old.repetitions - 2 ELSE 0)
                   /\ last.interval = 1

\* a failed review of an item at three repetitions leaves one, not zero
C16_Witness ==
    /\ last.op = "calculate_sm2"
    /\ last.quality = 2
    /\ last.old.repetitions = 3
    /\ last.repetitions = 1
    /\ last.interval = 1

\* C17: after a successful review the interval is 1 at repetition 1, 6 at
\* repetition 2, and otherwise the old interval times the easiness factor
\* after this review, rounded to the nearest whole day; from repetitions 0,
\* interval 1, factor 2.5, three reviews of quality 5 give 1, 6, 17.
C17_Intervals ==
    last.op = "calculate_sm2"
        => /\ last.quality >= 3
                => /\ last.repetitions = 1 => last.interval = 1
                   /\ last.repetitions = 2 => last.interval = 6
                   /\ last.repetitions > 2
                        => LET exact == last.old.interval * last.easiness_factor
                               diff == 100 * last.interval - exact
                           IN -50 <= diff /\ diff <= 50
           /\ (/\ last.first = [easiness_factor |-> InitialEF, repetitions |-> 0,
                                interval |-> 1]
               /\ last.qualities = <<5, 5, 5>>)
                => last.intervals = <<1, 6, 17>>

C17_Witness ==
    /\ last.op = "calculate_sm2"
    /\ last.first = [easiness_factor |-> InitialEF, repetitions |-> 0, interval |-> 1]
    /\ last.qualities = <<5, 5, 5>>
    /\ last.intervals = <<1, 6, 17>>
    /\ last.easiness_factor = 280

\* C18: get_due_reviews returns the rows of the user whose next_review_date
\* is not after now, each once and no other row, the earlier date first.
C18_DueReviews ==
    last.op = "get_due_reviews"
        => LET ret == last.ret
               rows == db.vocabulary_reviews
           IN /\ {ret[i] : i \in 1..Len(ret)}
                    = {id \in 1..Len(rows) :
                         rows[id].user_id = last.user /\ rows[id].next_review_date <= last.at}
              /\ \A i, j \in 1..Len(ret) : i # j => ret[i] # ret[j]
              /\ \A i \in 1..(Len(ret) - 1) :
                    rows[ret[i]].next_review_date <= rows[ret[i + 1]].next_review_date

\* two due rows of u1, the one due since day 0 before the one due since day
\* 1, and not the due row of u2
C18_Witness ==
    /\ last.op = "get_due_reviews"
    /\ last.user = "u1"
    /\ Len(last.ret) = 2
    /\ db.vocabulary_reviews[last.ret[1]].next_review_date
         < db.vocabulary_reviews[last.ret[2]].next_review_date
    /\ \E id \in 1..Len(db.vocabulary_reviews) :
          /\ db.vocabulary_reviews[id].user_id = "u2"
          /\ db.vocabulary_reviews[id].next_review_date <= last.at

\* C19: when a word is served again, every other word that was overdue at
\* its first serving has been served by then.
C19_NoRepeatBeforeOthers ==
    \A j \in 1..Len(shown) :
        \A k \in 1..(j - 1) :
            (/\ shown[k].user = shown[j].user
             /\ shown[k].review_id = shown[j].review_id
             /\ \A n \in 1..(k - 1) : shown[n].review_id # shown[k].review_id)
                => \A other \in shown[k].due \ {shown[k].review_id} :
                      \E m \in 1..(j - 1) : shown[m].review_id = other

\* this step is a call of add_word_to_srs that returned
AddWordReturned == last'.op = "add_word_to_srs" /\ (last' # last \/ db' # db)

SameTriple(row, d, u, word) ==
    /\ row.user_id = u
    /\ row.word = word
    /\ row.target_language = d.users[u].target_language

\* C20: the first add_word_to_srs for a user, word and language appends one
\* row with factor 2.5, repetitions 0, interval 1, due now; a later call
\* appends nothing, returns that row, leaves its factor, repetitions and
\* interval alone and brings its date to now only when the date is after now.
C20_AddWordIdempotent ==
    [][AddWordReturned
       => LET rows == db.vocabulary_reviews
              u == last'.user
              word == last'.word
              matching == {id \in 1..Len(rows) : SameTriple(rows[id], db, u, word)}
          IN IF matching = {}
             THEN /\ last'.created
                  /\ last'.id = Len(rows) + 1
                  /\ db'.vocabulary_reviews
                       = Append(rows, [user_id |-> u, word |-> word,
                                       target_language |-> db.users[u].target_language,
                                       easiness_factor |-> InitialEF, repetitions |-> 0,
                                       interval |-> 1, next_review_date |-> now,
                                       last_reviewed_at |-> NoTime])
             ELSE /\ ~last'.created
                  /\ last'.id \in matching
                  /\ Len(db'.vocabulary_reviews) = Len(rows)
                  /\ \A id \in 1..Len(rows) :
                        id # last'.id => db'.vocabulary_reviews[id] = rows[id]
                  /\ db'.vocabulary_reviews[last'.id]
                       = [rows[last'.id] EXCEPT !.next_review_date =
                             IF @ > now THEN now ELSE @]]_vars

\* a word reviewed today, then added again: due today instead of tomorrow,
\* its repetitions kept
C20_Witness ==
    /\ last.op = "add_word_to_srs"
    /\ ~last.created
    /\ db.vocabulary_reviews[last.id].last_reviewed_at = now
    /\ db.vocabulary_reviews[last.id].next_review_date = now
    /\ db.vocabulary_reviews[last.id].repetitions = 2

Triple(row) == <<row.easiness_factor, row.repetitions, row.interval>>

RECURSIVE SerialReviews(_, _)
\* the row after the reviews of the list, one after the other
SerialReviews(row, qualities) ==
    IF qualities = <<>> THEN row
    ELSE SerialReviews(ReviewedRow(row, Head(qualities), now), Tail(qualities))

\* the orders a set of requests can be served in one at a time
SerialOrders(rs) ==
    {order \in [1..Cardinality(rs) -> rs] :
        \A i, j \in 1..Cardinality(rs) : i # j => order[i] # order[j]}

ReviewWritten(r) == reqs[r].pc \in {"progress_read", "progress_write", "done"}

\* C13: once the review submissions for one item have all written, the
\* item's factor, repetitions and interval are those of the submissions
\* applied one after the other in some order.
C13_SerialReviews ==
    \A id \in ReviewIds(db) :
        LET rs == {r \in 1..Len(reqs) : reqs[r].review_id = id}
        IN (rs # {} /\ \A r \in rs : ReviewWritten(r))
              => \E order \in SerialOrders(rs) :
                    Triple(db.vocabulary_reviews[id])
                      = Triple(SerialReviews(RaceDb.vocabulary_reviews[id],
                                             [k \in 1..Cardinality(rs) |->
                                                 reqs[order[k]].quality]))

\* C14: once the level reset has happened and every answer submission has
\* finished, the vocabulary row counts no attempt from before the reset: at
\* most one attempt for each submission, and no more right ones than attempts.
C14_NoStaleCounts ==
    (/\ db.users["u1"].level # RaceDb.users["u1"].level
     /\ \A r \in 1..Len(reqs) : reqs[r].pc \in {"done", "failed"})
        => LET row == _get_module_progress(db, "u1", "vocabulary")
           IN /\ row.total_attempts <= Len(reqs)
              /\ row.correct_attempts <= row.total_attempts

\* C21: no two rows of vocabulary_reviews have the same user, word and
\* language.
C21_UniqueTriples ==
    \A i, j \in ReviewIds(db) :
        (/\ db.vocabulary_reviews[i].user_id = db.vocabulary_reviews[j].user_id
         /\ db.vocabulary_reviews[i].word = db.vocabulary_reviews[j].word
         /\ db.vocabulary_reviews[i].target_language
              = db.vocabulary_reviews[j].target_language)
            => i = j

\* this step is a review submission that returned
SubmitReturned == last'.op = "submit_vocabulary_answer" /\ (last' # last \/ db' # db)

\* C22: a review submission whose quality is not one of 0..5 changes no
\* review row and no progress row.
C22_QualityRejected ==
    [][(SubmitReturned /\ last'.quality \notin 0..5)
          => /\ db'.vocabulary_reviews = db.vocabulary_reviews
             /\ db'.user_progress = db.user_progress]_vars

\* C23: a review submission whose id finds no row fails, and the tables are
\* as they were: no review row is added or changed and the vocabulary
\* progress is not counted.
C23_NotFoundChangesNothing ==
    [][(SubmitReturned /\ last'.review_id \notin ReviewIds(db))
          => /\ ~last'.ok
             /\ db' = db]_vars

C23_Witness ==
    /\ last.op = "submit_vocabulary_answer"
    /\ ~last.ok
    /\ last.review_id \notin ReviewIds(db)
    /\ Len(db.vocabulary_reviews) > 0
    /\ steps > 0

\* C24: a review submission of a user leaves the review rows of every other
\* user as they were.
C24_OwnRowsOnly ==
    [][SubmitReturned
          => \A id \in ReviewIds(db) :
                db.vocabulary_reviews[id].user_id # last'.user
                   => db'.vocabulary_reviews[id] = db.vocabulary_reviews[id]]_vars

AnswerModules == {"vocabulary", "grammar"}

\* C25: every vocabulary and grammar row of a requesting user counts no more
\* right answers than answers and, once an answer is counted, has the score
\* correct_attempts / total_attempts * 100.
C25_ScoreFromAttempts ==
    \A u \in Callers, m \in AnswerModules :
        HasRow(db, u, m)
           => LET row == _get_module_progress(db, u, m)
              IN /\ row.correct_attempts <= row.total_attempts
                 /\ row.total_attempts > 0
                      => row.score = Rat(row.correct_attempts * 100, row.total_attempts)

\* the score a running average over n submissions has after one more
RunningAverage(old, n, score) == RDiv(RAdd(RMul(old, Num(n)), Num(score)), n + 1)

AveragedBefore(u, m) ==
    IF HasRow(db, u, m)
    THEN [score |-> OrZero(_get_module_progress(db, u, m).score),
          n |-> _get_module_progress(db, u, m).total_attempts]
    ELSE [score |-> Num(0), n |-> 0]

\* C26: a writing or phonetics submission leaves the score that a running
\* average of the submissions has: the score over the n submissions before,
\* times n, plus the new score, over n + 1.
C26_RunningAverage ==
    [][\A u \in Callers :
          /\ (/\ last'.op = "get_writing_feedback"
              /\ last'.user = u
              /\ steps' = steps + 1)
                => \E score \in WritingScores :
                      _get_module_progress(db', u, "writing").score
                        = RunningAverage(AveragedBefore(u, "writing").score,
                                         AveragedBefore(u, "writing").n, score)
          /\ (/\ last'.op = "evaluate_pronunciation"
              /\ last'.user = u
              /\ steps' = steps + 1)
                => \E score \in PronunciationScores, low_confidence \in BOOLEAN :
                      _get_module_progress(db', u, "phonetics").score
                        = RunningAverage(AveragedBefore(u, "phonetics").score,
                                         AveragedBefore(u, "phonetics").n,
                                         PronunciationScore(score, low_confidence))]_vars

\* C27: a requesting user whose can_advance flag is set is eligible.
C27_FlagCoherent ==
    \A u \in Callers :
        (UserExists(db, u) /\ db.users[u].can_advance)
           => calculate_advancement_eligibility(db, u).eligible

\* C28: whatever advance requests have run, the user has advanced at most
\* once: at most one history record was added, the level moved as many
\* stages as records were added, and total_xp grew by as many rewards.
C28_OneAdvancement ==
    LET user == db.users["u1"]
        before == RaceDb.users["u1"]
        added == Len(UserHistory(db, "u1")) - Len(UserHistory(RaceDb, "u1"))
    IN /\ added <= 1
       /\ LevelIndex(user.level) = LevelIndex(before.level) + added
       /\ user.total_xp = before.total_xp + added * XpEarned(before.level)

\* after a successful advancement the user starts from nothing and cannot
\* advance again; before it the gates were met
ResetThenGates(u) ==
    /\ ~calculate_advancement_eligibility(db', u).eligible
    /\ ~advance_user_level(db', u, now').ret.ok
    /\ advance_user_level(db', u, now').ret.error[1] = "Not eligible to advance"
    /\ advance_user_level(db', u, now').db = db'
    /\ \A m \in ScoredModuleNames :
          /\ ModuleAttempts(db', u, m) = 0
          /\ ModuleAttempts(db, u, m) >= MINIMUM_ATTEMPTS
    /\ _get_conversation_message_count(db', u) = 0
    /\ _get_conversation_message_count(db, u) >= CONVERSATION_MINIMUM

\* in this step the counts of the user grow by one attempt or one message at
\* the most
CountedOneByOne(u) ==
    /\ \A m \in ScoredModuleNames :
          ModuleAttempts(db', u, m) <= ModuleAttempts(db, u, m) + 1
    /\ _get_conversation_message_count(db', u)
         <= _get_conversation_message_count(db, u) + 1

MeetsGates(entry) ==
    /\ \A score \in {entry.vocabulary_score, entry.grammar_score,
                     entry.writing_score, entry.phonetics_score} :
          score # None /\ RGe(score, Num(SCORE_THRESHOLD))
    /\ \A attempts \in {entry.vocabulary_attempts, entry.grammar_attempts,
                        entry.writing_attempts, entry.phonetics_attempts} :
          attempts >= MINIMUM_ATTEMPTS
    /\ entry.conversation_messages >= CONVERSATION_MINIMUM
    /\ RGe(entry.weighted_score, Num(SCORE_THRESHOLD))

\* C30: every record of level_history has each of its four scores at 85 or
\* more, each attempt count at 10 or more, 20 messages or more, and a
\* weighted score of 85 or more.
C30_HistoryMeetsGates ==
    \A i \in 1..Len(db.level_history) : MeetsGates(db.level_history[i])

\* a record written in this behaviour, on the boundary of ten attempts
C30_Witness ==
    /\ last.op = AdvanceOp
    /\ last.ret.ok
    /\ Len(db.level_history) > 0
    /\ db.level_history[Len(db.level_history)].user_id = last.user
    /\ db.level_history[Len(db.level_history)].grammar_attempts = MINIMUM_ATTEMPTS
    /\ db.level_history[Len(db.level_history)].weighted_score # Num(CheatScore)

====
